---------------------------- MODULE Spec2Model ----------------------------
(***************************************************************************)
(* Oscilloscope lab viewer: the cursor state machine of PlotManager and    *)
(* CursorManager, the Viewer Shell's load and readout refresh, and the     *)
(* measurement engine of DataHandler.                                      *)
(*                                                                         *)
(* Positions are points of an integer grid (Coords); None stands for       *)
(* Python's None in a position slot.  Names (cursor names, file paths,     *)
(* placement modes) are strings, with NoName for Python's None.            *)
(***************************************************************************)
EXTENDS Integers, Sequences, FiniteSets, TLC

\* ------------------------------------------------------------- bounds
MaxCoord == 1          \* pointer coordinates are 0..MaxCoord on both axes
MaxSample == 2         \* voltage samples of a measured channel are 0..MaxSample
MaxLen == 4            \* a measured channel has 2..MaxLen samples
MaxStep == 2           \* its samples are 1..MaxStep time units apart
MaxEvents == 5         \* a run of the viewer handles at most MaxEvents events

None == -1
NoName == "None"
Coords == 0..MaxCoord

\* ------------------------------------------------------------- names
CursorNames == <<"time1", "time2", "volt1", "volt2">>
NameSet == {"time1", "time2", "volt1", "volt2"}
TimePair == <<"time1", "time2">>
VoltPair == <<"volt1", "volt2">>

\* 'time' in name
IsTimeName(name) == name \in {"time1", "time2"}

Abs(x) == IF x < 0 THEN -x ELSE x

\* ------------------------------------------------------------- widget tree
\* OscilloscopeViewer.create_layout / create_right_panel and
\* PlotManager.setup_plot build this containment chain; .master walks it up.
Master(w) ==
    CASE w = "tkcanvas" -> "plot_manager"
      [] w = "plot_manager" -> "right_panel"
      [] w = "right_panel" -> "content_frame"
      [] w = "content_frame" -> "main_frame"
      [] w = "main_frame" -> "viewer"
      [] OTHER -> NoName

\* hasattr(widget, attr): the plain ttk.Frame containers carry no application
\* attribute; update_measurements is a method of the viewer, cursor_positions
\* and file_cursor_positions are attributes of the PlotManager.
HasAttr(w, attr) ==
    \/ w = "viewer" /\ attr = "update_measurements"
    \/ w = "plot_manager" /\ attr \in {"cursor_positions", "file_cursor_positions", "current_file"}

\* self.parent.master as seen from PlotManager (self.parent is right_panel)
PlotManagerParentMaster == Master(Master("plot_manager"))

\* self.ax.figure.canvas.get_tk_widget().master.master as seen from CursorManager
OnMotionPlotManager == Master(Master("tkcanvas"))


\* ------------------------------------------------------------- numbers
\* A non-integer result (a mean, a ratio) is the exact fraction <<num, den>>.
Zero == <<0, 1>>
Inf == <<1, 0>>
RatEq(p, q) == p[1] * q[2] = q[1] * p[2]
RatIsZero(p) == p[1] = 0

RECURSIVE SumSeq(_)
SumSeq(q) == IF Len(q) = 0 THEN 0 ELSE Head(q) + SumSeq(Tail(q))

\* a stride that keeps every element
Stride2_All(q) == q
\* seq[::2]
Stride2(q) == [k \in 1..((Len(q) + 1) \div 2) |-> q[2 * k - 1]]
\* differences taken from the first element instead of the previous one
Diff_FromFirst(q) == [k \in 1..(Len(q) - 1) |-> q[k + 1] - q[1]]
\* np.diff on numbers
Diff(q) == [k \in 1..(Len(q) - 1) |-> q[k + 1] - q[k]]
\* the elements of q at the 1-based positions listed in idx (time[crossings])
Take(q, idx) == [k \in 1..Len(idx) |-> q[idx[k]]]
\* the increasing sequence of the elements of a finite set of integers
RECURSIVE SortedSeq(_)
SortedSeq(S) ==
    IF S = {} THEN <<>>
    ELSE LET m == CHOOSE x \in S : \A y \in S : x <= y
         IN <<m>> \o SortedSeq(S \ {m})
\* a maximum that takes the last element
SeqMax_Last(q) == q[Len(q)]
SeqMax(q) == CHOOSE x \in {q[i] : i \in 1..Len(q)} : \A i \in 1..Len(q) : q[i] <= x
SeqMin(q) == CHOOSE x \in {q[i] : i \in 1..Len(q)} : \A i \in 1..Len(q) : x <= q[i]

\* ------------------------------------------------------------- DataHandler.get_measurements
NoData == <<>>
NoMeasurement == <<>>

\* np.signbit(data - mean) at sample i: data[i] - mean < 0, mean = sum/n
SignBit(v, i) == v[i] * Len(v) < SumSeq(v)

\* a crossing search in which a sample equal to the mean counts as below it
Crossings_AtOrBelow(v) ==
    SortedSeq({i \in 1..(Len(v) - 1) :
                 (v[i] * Len(v) <= SumSeq(v)) # (v[i + 1] * Len(v) <= SumSeq(v))})

\* np.where(np.diff(np.signbit(data - mean)))[0], as 1-based positions
Crossings(v) ==
    SortedSeq({i \in 1..(Len(v) - 1) : SignBit(v, i) # SignBit(v, i + 1)})

\* data[i] <= v10 and data[i+1] >= v90, with v10 = vmin + 0.1*vpp, v90 = vmin + 0.9*vpp
IsRisingEdge(v, i, vmin, vpp) ==
    /\ 10 * v[i] <= 10 * vmin + vpp
    /\ 10 * v[i + 1] >= 10 * vmin + 9 * vpp

\* a falling-edge test that does not depend on the rising-edge test
IsFallingEdge_Independent(v, i, vmin, vpp) ==
    /\ 10 * v[i] >= 10 * vmin + 9 * vpp
    /\ 10 * v[i + 1] <= 10 * vmin + vpp

\* elif data[i] >= v90 and data[i+1] <= v10
IsFallingEdge(v, i, vmin, vpp) ==
    /\ ~IsRisingEdge(v, i, vmin, vpp)
    /\ 10 * v[i] >= 10 * vmin + 9 * vpp
    /\ 10 * v[i + 1] <= 10 * vmin + vpp

\* np.mean of the durations time[i+1] - time[i] of the listed edges, 0 if none
MeanEdgeTime(t, edges) ==
    IF edges = {} THEN Zero
    ELSE <<SumSeq(Take(Diff(t), SortedSeq(edges))), Cardinality(edges)>>

get_measurements(data, channel) ==
    IF data = NoData \/ channel \notin DOMAIN data THEN NoMeasurement
    ELSE
    LET v == data[channel]
        t == data["TIME"]
        vmax == SeqMax(v)
        vmin == SeqMin(v)
        vpp == vmax - vmin
        crossings == Crossings(v)
        periods == Diff(Take(t, Stride2(crossings)))
        period == IF Len(crossings) > 1 /\ Len(periods) > 0
                  THEN <<SumSeq(periods), Len(periods)>> ELSE Zero
        freq == IF period[1] > 0 THEN <<period[2], period[1]>> ELSE Zero
        rising_edges == {i \in 1..(Len(v) - 1) : IsRisingEdge(v, i, vmin, vpp)}
        falling_edges == {i \in 1..(Len(v) - 1) : IsFallingEdge(v, i, vmin, vpp)}
        intervals == Diff(Take(t, crossings))
        high_time == SumSeq(Stride2(intervals))
        total_time == SumSeq(intervals)
        duty == IF Len(crossings) > 1 /\ total_time > 0
                THEN <<100 * high_time, total_time>> ELSE Zero
    IN [vpp |-> vpp, vmax |-> vmax, vmin |-> vmin,
        freq |-> freq, period |-> period,
        rise_time |-> MeanEdgeTime(t, rising_edges),
        fall_time |-> MeanEdgeTime(t, falling_edges),
        duty |-> duty]

\* ------------------------------------------------------------- capture files
\* A line of a capture file is its comma-separated fields: text fields of a
\* metadata or header line, numbers of a data row.
TextLine(fields) == [kind |-> "text", f |-> fields]
DataRow(fields) == [kind |-> "num", f |-> fields]

\* the instrument's header block of key,value lines
MetaBlock ==
    << TextLine(<<"Model", "MSO2024">>),
       TextLine(<<"Firmware Version", "1.52">>),
       TextLine(<<"Point Format", "Y">>),
       TextLine(<<"Horizontal Units", "S">>),
       TextLine(<<"Horizontal Scale", "2e-05">>),
       TextLine(<<"Sample Interval", "4e-08">>),
       TextLine(<<"Filter Frequency", "2e+08">>),
       TextLine(<<"Record Length", "5000">>),
       TextLine(<<"Gating", "0.0% to 100.0%">>),
       TextLine(<<"Probe Attenuation", "10", "10">>),
       TextLine(<<"Vertical Units", "V", "V">>),
       TextLine(<<"Vertical Offset", "0", "0">>),
       TextLine(<<"Vertical Scale", "1", "2">>) >>

Files == {"A.csv", "B.csv"}
BadFiles == {"nochannel.csv", "noheader.csv"}

FileLines(filepath) ==
    CASE filepath = "A.csv" ->
           MetaBlock \o << TextLine(<<"TIME", "CH1", "CH2">>),
                           DataRow(<<0, 0, 1>>), DataRow(<<1, 2, 1>>),
                           DataRow(<<2, 0, 1>>), DataRow(<<3, 2, 1>>) >>
      [] filepath = "B.csv" ->
           MetaBlock \o << TextLine(<<"TIME", "CH1", "CH2">>),
                           DataRow(<<0, 1, 0>>), DataRow(<<2, 1, 2>>),
                           DataRow(<<4, 1, 2>>) >>
      [] filepath = "nochannel.csv" ->
           MetaBlock \o << TextLine(<<"TIME", "CH1">>),
                           DataRow(<<0, 0>>), DataRow(<<1, 2>>) >>
      [] filepath = "noheader.csv" ->
           MetaBlock \o << DataRow(<<0, 0, 1>>), DataRow(<<1, 2, 1>>) >>

\* ------------------------------------------------------------- DataHandler.load_data
\* "if i < 13:  # Metadata section" (i counts lines from 0)
MetadataLines == 13

\* ',' in line
HasComma(line) == Len(line.f) >= 2
\* 'TIME' in line
HasTimeToken(line) == line.kind = "text" /\ \E j \in 1..Len(line.f) : line.f[j] = "TIME"

\* metadata[key] = value over the first MetadataLines lines, later lines winning
ReadMetadata(lines) ==
    LET meta == {k \in 1..Len(lines) : k <= MetadataLines /\ HasComma(lines[k])}
        keys == {lines[k].f[1] : k \in meta}
        last(key) == CHOOSE k \in meta :
                        /\ lines[k].f[1] = key
                        /\ \A k2 \in meta : lines[k2].f[1] = key => k2 <= k
    IN [key \in keys |-> Tail(lines[last(key)].f)]

\* data_start: the 0-based number of the first line past the metadata section
\* that holds the TIME token, 0 if there is none
DataStart(lines) ==
    LET hits == {k \in 1..Len(lines) : k > MetadataLines /\ HasTimeToken(lines[k])}
    IN IF hits = {} THEN 0
       ELSE (CHOOSE k \in hits : \A k2 \in hits : k <= k2) - 1

\* pd.read_csv(filepath, skiprows=data_start): the first line kept is the
\* header; the first row may be wider than the header, its leading fields then
\* being the index; a later row with more fields than that is a parser error,
\* and an empty file is one as well
ReadCsv(lines, skiprows) ==
    LET body == SubSeq(lines, skiprows + 1, Len(lines))
    IN IF Len(body) = 0 THEN [ok |-> FALSE, data |-> NoData]
       ELSE
       LET header == body[1]
           rows == Tail(body)
           columns == IF header.kind = "text"
                      THEN {header.f[j] : j \in 1..Len(header.f)} ELSE {}
           col(c) == CHOOSE j \in 1..Len(header.f) : header.f[j] = c
           width == IF Len(rows) > 0 /\ Len(rows[1].f) > Len(header.f)
                    THEN Len(rows[1].f) ELSE Len(header.f)
           leading == width - Len(header.f)
       IN IF \E r \in 1..Len(rows) : Len(rows[r].f) > width
          THEN [ok |-> FALSE, data |-> NoData]
          ELSE [ok |-> TRUE,
                data |-> [c \in columns |->
                            [r \in 1..Len(rows) |->
                                IF leading + col(c) <= Len(rows[r].f)
                                THEN rows[r].f[leading + col(c)] ELSE None]]]

RequiredColumns == {"TIME", "CH1", "CH2"}

\* what reading each file yields: the metadata loop's dict and read_csv's frame
ReadFile(lines) ==
    [metadata |-> ReadMetadata(lines),
     csv |-> ReadCsv(lines, DataStart(lines))]

\* the capture files, read once
FileRead == [filepath \in Files \cup BadFiles |-> ReadFile(FileLines(filepath))]

\* a load that keeps the frame it has read before it checks the columns
load_data_StoreFirst(s, filepath) ==
    LET metadata == FileRead[filepath].metadata
        csv == FileRead[filepath].csv
        s1 == IF csv.ok
              THEN [s EXCEPT !.dh_data = csv.data, !.dh_metadata = metadata]
              ELSE s
    IN IF ~csv.ok \/ ~(RequiredColumns \subseteq DOMAIN csv.data)
       THEN [st |-> s1, raised |-> TRUE, data |-> NoData, metadata |-> <<>>]
       ELSE [st |-> s1, raised |-> FALSE, data |-> csv.data, metadata |-> metadata]

\* load_data returns the handler's state and the outcome: self.data and
\* self.metadata are assigned only after the column check
\* the rest of load_data once the file has been read: the column check, then
\* the two assignments
LoadRead(s, rd) ==
    LET metadata == rd.metadata
        csv == rd.csv
    IN IF ~csv.ok \/ ~(RequiredColumns \subseteq DOMAIN csv.data)
       THEN [st |-> s, raised |-> TRUE, data |-> NoData, metadata |-> <<>>]
       ELSE [st |-> [s EXCEPT !.dh_data = csv.data, !.dh_metadata = metadata],
             raised |-> FALSE, data |-> csv.data, metadata |-> metadata]

load_data(s, filepath) == LoadRead(s, FileRead[filepath])

\* get_measurements on the frames the capture files hold, computed once
Measured ==
    [filepath \in Files |->
        [ch \in DOMAIN FileRead[filepath].csv.data |->
            get_measurements(FileRead[filepath].csv.data, ch)]]

\* ------------------------------------------------------------- readout formatting
\* f"{x:.2e}": three significant digits, as <<"e", mantissa in 100..999, exponent>>
\* for the fraction n/d; "inf" for the infinite sentinel.
RECURSIVE Sci3(_, _, _)
Sci3(n, d, e) ==
    IF d = 0 THEN <<"inf", 0, 0>>
    ELSE IF n = 0 THEN <<"e", 0, 0>>
    ELSE IF n >= 1000 * d THEN Sci3(n, 10 * d, e + 1)
    ELSE IF n < 100 * d THEN Sci3(10 * n, d, e - 1)
    ELSE <<"e", (2 * n + d) \div (2 * d), e>>
Fmt2e(q) == Sci3(q[1], q[2], 2)

\* f"{x:.3f}": the value in thousandths, rounded
Fmt3f(q) == <<"f", (2000 * q[1] + q[2]) \div (2 * q[2]), 0>>

Dashes == <<"--", 0, 0>>

\* ------------------------------------------------------------- state
VARIABLES
    dh_data,                \* DataHandler.data
    dh_metadata,            \* DataHandler.metadata
    current_data,           \* PlotManager.current_data
    current_metadata,       \* PlotManager.current_metadata
    current_file,           \* PlotManager.current_file
    cursor_positions,       \* PlotManager.cursor_positions
    file_cursor_positions,  \* PlotManager.file_cursor_positions
    channel_vars,           \* PlotManager.channel_vars
    time_cursor_var,        \* PlotManager.time_cursor_var
    volt_cursor_var,        \* PlotManager.volt_cursor_var
    cursors,                \* CursorManager.cursors
    dragging,               \* CursorManager.dragging
    active_cursor,          \* CursorManager.active_cursor
    cursor_placement_mode,  \* CursorManager.cursor_placement_mode
    last_cursor_click,      \* CursorManager.last_cursor_click
    cursor_pos,             \* OscilloscopeViewer.cursor_pos
    delta_t_var,            \* OscilloscopeViewer.delta_t_var
    delta_v_var,            \* OscilloscopeViewer.delta_v_var
    cursor_freq_var,        \* OscilloscopeViewer.cursor_freq_var
    measurements,           \* OscilloscopeViewer.measurements
    status,                 \* the status bar's text
    button_down,            \* the pointer's left button is held
    last_enabled,           \* history: the pair whose toggle was turned on last
    events,                 \* the number of events handled so far
    disk,                   \* the layout of a file handed to load_data directly
    loaded                  \* what that call of load_data came to

vars == <<dh_data, dh_metadata, current_data, current_metadata, current_file,
          cursor_positions, file_cursor_positions, channel_vars,
          time_cursor_var, volt_cursor_var, cursors, dragging, active_cursor,
          cursor_placement_mode, last_cursor_click, cursor_pos, delta_t_var,
          delta_v_var, cursor_freq_var, measurements, status, button_down,
          last_enabled, events, disk, loaded>>

\* The application's state as one value; the handlers below map it to the
\* state they leave behind.
State ==
    [dh_data |-> dh_data, dh_metadata |-> dh_metadata,
     current_data |-> current_data, current_metadata |-> current_metadata,
     current_file |-> current_file, cursor_positions |-> cursor_positions,
     file_cursor_positions |-> file_cursor_positions,
     channel_vars |-> channel_vars, time_cursor_var |-> time_cursor_var,
     volt_cursor_var |-> volt_cursor_var, cursors |-> cursors,
     dragging |-> dragging, active_cursor |-> active_cursor,
     cursor_placement_mode |-> cursor_placement_mode,
     last_cursor_click |-> last_cursor_click, cursor_pos |-> cursor_pos,
     delta_t_var |-> delta_t_var, delta_v_var |-> delta_v_var,
     cursor_freq_var |-> cursor_freq_var, measurements |-> measurements,
     status |-> status]

\* {'line': None, 'label': None, 'value': None, 'active': False}
BlankCursor == [line |-> FALSE, value |-> None, active |-> FALSE]
\* {'time1': None, 'time2': None, 'volt1': None, 'volt2': None}
NoPositions == [n \in NameSet |-> None]

\* ------------------------------------------------------------- CursorManager.get_cursor_measurements
\* The returned dict, with None for a key it does not hold.
\* get_cursor_measurements with the signed difference time2 - time1 for delta_t
get_cursor_measurements_Signed(cs) ==
    LET both_time == cs["time1"].value # None /\ cs["time2"].value # None
        both_volt == cs["volt1"].value # None /\ cs["volt2"].value # None
        delta_t == cs["time2"].value - cs["time1"].value
    IN [time1 |-> cs["time1"].value, time2 |-> cs["time2"].value,
        volt1 |-> cs["volt1"].value, volt2 |-> cs["volt2"].value,
        delta_t |-> IF both_time THEN delta_t ELSE None,
        freq |-> IF both_time THEN (IF delta_t # 0 THEN <<1, delta_t>> ELSE Inf)
                 ELSE Zero,
        has_freq |-> both_time,
        delta_v |-> IF both_volt
                    THEN Abs(cs["volt2"].value - cs["volt1"].value) ELSE None]

get_cursor_measurements(cs) ==
    LET both_time == cs["time1"].value # None /\ cs["time2"].value # None
        both_volt == cs["volt1"].value # None /\ cs["volt2"].value # None
        delta_t == Abs(cs["time2"].value - cs["time1"].value)
    IN [time1 |-> cs["time1"].value, time2 |-> cs["time2"].value,
        volt1 |-> cs["volt1"].value, volt2 |-> cs["volt2"].value,
        delta_t |-> IF both_time THEN delta_t ELSE None,
        freq |-> IF both_time THEN (IF delta_t # 0 THEN <<1, delta_t>> ELSE Inf)
                 ELSE Zero,
        has_freq |-> both_time,
        delta_v |-> IF both_volt
                    THEN Abs(cs["volt2"].value - cs["volt1"].value) ELSE None]

\* ------------------------------------------------------------- OscilloscopeViewer.update_measurements
\* The text a cursor readout gets for one measurement.
CursorReadout(name, cm) ==
    IF cm[name] = None THEN Dashes
    ELSE IF IsTimeName(name) THEN Fmt2e(<<cm[name], 1>>)
    ELSE Fmt3f(<<cm[name], 1>>)

\* The per-channel automatic results: one entry per enabled channel.
AutoMeasurements(s) ==
    [ch \in {c \in DOMAIN s.channel_vars : s.channel_vars[c]} |->
        IF \E filepath \in Files : s.dh_data = FileRead[filepath].csv.data
        THEN Measured[CHOOSE filepath \in Files :
                         s.dh_data = FileRead[filepath].csv.data][ch]
        ELSE get_measurements(s.dh_data, ch)]

update_measurements(s) ==
    LET cm == get_cursor_measurements(s.cursors)
    IN [s EXCEPT
         !.cursor_pos = [n \in NameSet |-> CursorReadout(n, cm)],
         !.delta_t_var = IF cm.delta_t # None THEN Fmt2e(<<cm.delta_t, 1>>) ELSE Dashes,
         !.cursor_freq_var = IF cm.delta_t # None THEN Fmt2e(cm.freq) ELSE Dashes,
         !.delta_v_var = IF cm.delta_v # None THEN Fmt3f(<<cm.delta_v, 1>>) ELSE Dashes,
         !.measurements = AutoMeasurements(s)]

\* if hasattr(self.viewer, 'update_measurements'): self.viewer.update_measurements()
\* (CursorManager.viewer is the OscilloscopeViewer)
ViewerUpdate(s) ==
    IF HasAttr("viewer", "update_measurements") THEN update_measurements(s) ELSE s

\* if hasattr(self.parent.master, 'update_measurements'):
\*     self.parent.master.update_measurements()      (PlotManager)
ParentMasterUpdate(s) ==
    IF HasAttr(PlotManagerParentMaster, "update_measurements")
    THEN update_measurements(s) ELSE s

\* ------------------------------------------------------------- CursorManager
add_cursor(s, name, value) ==
    ViewerUpdate([s EXCEPT !.cursors[name] =
                     [line |-> TRUE, value |-> value, active |-> TRUE]])

remove_cursor(s, name) ==
    [s EXCEPT !.cursors[name] = BlankCursor]

\* update_cursor_positions rebuilds the labels only, then refreshes the readouts
update_cursor_positions(s) == ViewerUpdate(s)

\* The axis tolerance is 0.02 * (visible range): |d| < range / ToleranceDen
ToleranceDen == 50
\* a proximity test in which a pointer exactly on the line always counts
WithinTolerance_ExactHit(d, width) == d = 0 \/ ToleranceDen * Abs(d) < width

\* a proximity test that also accepts the boundary
WithinTolerance_Inclusive(d, width) == ToleranceDen * Abs(d) <= width

WithinTolerance(d, width) == ToleranceDen * Abs(d) < width

\* whether a pointer-down at (xdata, ydata) is near the marker `name`
NearCursor(s, name, event) ==
    /\ s.cursors[name].line
    /\ IF IsTimeName(name)
       THEN WithinTolerance(event.xdata - s.cursors[name].value, event.xwidth)
       ELSE WithinTolerance(event.ydata - s.cursors[name].value, event.ywidth)

\* a search that lets the last marker found win
FirstNear_Last(s, event) ==
    IF \E i \in 1..4 : NearCursor(s, CursorNames[i], event)
    THEN CHOOSE i \in 1..4 :
            /\ NearCursor(s, CursorNames[i], event)
            /\ \A j \in (i + 1)..4 : ~NearCursor(s, CursorNames[j], event)
    ELSE 0

\* the first marker, in the dict's order, the pointer-down is near (0 if none)
FirstNear(s, event) ==
    IF \E i \in 1..4 : NearCursor(s, CursorNames[i], event)
    THEN CHOOSE i \in 1..4 :
            /\ NearCursor(s, CursorNames[i], event)
            /\ \A j \in 1..(i - 1) : ~NearCursor(s, CursorNames[j], event)
    ELSE 0

on_click(s, event) ==
    IF ~event.inaxes \/ event.button # 1 THEN s
    ELSE LET i == FirstNear(s, event)
         IN IF i = 0 THEN s
            ELSE [s EXCEPT !.active_cursor = CursorNames[i],
                           !.dragging = TRUE,
                           !.cursors[CursorNames[i]].active = TRUE]

\* The coordinate a pointer event has on the axis of marker `name`
AxisCoord(name, event) == IF IsTimeName(name) THEN event.xdata ELSE event.ydata

\* on_motion returns the state it leaves and whether it raised.
on_motion(s, event) ==
    IF ~s.dragging \/ s.active_cursor = NoName \/ ~event.inaxes
    THEN [st |-> s, raised |-> FALSE]
    ELSE
    LET plot_manager == OnMotionPlotManager
        name == s.active_cursor
        c == AxisCoord(name, event)
    IN IF ~s.cursors[name].line
       THEN \* cursor['line'].set_xdata on None: AttributeError
            [st |-> s, raised |-> TRUE]
       ELSE
       LET s1 == [s EXCEPT !.cursors[name].value = c]
       IN IF ~HasAttr(plot_manager, "cursor_positions")
          THEN \* plot_manager.cursor_positions: AttributeError
               [st |-> s1, raised |-> TRUE]
          ELSE
          LET s2 == [s1 EXCEPT !.cursor_positions[name] = c]
          IN IF s2.current_file = NoName
             THEN [st |-> ViewerUpdate(update_cursor_positions(s2)), raised |-> FALSE]
             ELSE IF s2.current_file \notin DOMAIN s2.file_cursor_positions
             THEN \* file_cursor_positions[current_file]: KeyError
                  [st |-> s2, raised |-> TRUE]
             ELSE [st |-> ViewerUpdate(update_cursor_positions(
                             [s2 EXCEPT !.file_cursor_positions[s2.current_file][name] = c])),
                   raised |-> FALSE]

on_release(s) ==
    IF s.active_cursor # NoName
    THEN ViewerUpdate([s EXCEPT !.cursors[s.active_cursor].active = FALSE,
                                !.active_cursor = NoName,
                                !.dragging = FALSE])
    ELSE s

\* ------------------------------------------------------------- PlotManager
\* dict assignment d[k] = v
Put(d, k, v) == [x \in (DOMAIN d) \cup {k} |-> IF x = k THEN v ELSE d[x]]

\* update_channel_controls: one BooleanVar(value=True) per column starting with CH
IsChannel(col) == col \in {"CH1", "CH2", "CH3", "CH4"}
update_channel_controls(data) ==
    [ch \in {c \in DOMAIN data : IsChannel(c)} |-> TRUE]

\* "Restore cursors if they were enabled" for one pair: marker 1 if remembered,
\* and marker 2 only under marker 1
RestorePair(s, enabled, pair) ==
    IF enabled /\ s.cursor_positions[pair[1]] # None
    THEN LET s1 == add_cursor(s, pair[1], s.cursor_positions[pair[1]])
         IN IF s.cursor_positions[pair[2]] # None
            THEN add_cursor(s1, pair[2], s.cursor_positions[pair[2]])
            ELSE s1
    ELSE s

update_plot(s, data, metadata, filepath) ==
    IF data = NoData /\ s.current_data = NoData THEN s
    ELSE
    LET s1 == IF data # NoData
              THEN [s EXCEPT !.current_data = data, !.current_metadata = metadata]
              ELSE s
        s2 == IF s1.current_file # NoName /\ s1.current_file # filepath
              THEN [s1 EXCEPT !.file_cursor_positions =
                                 Put(@, s1.current_file, s1.cursor_positions)]
              ELSE s1
        s3 == IF filepath # NoName
              THEN [s2 EXCEPT
                      !.current_file = filepath,
                      !.cursor_positions =
                          IF filepath \in DOMAIN s2.file_cursor_positions
                          THEN s2.file_cursor_positions[filepath]
                          ELSE NoPositions,
                      !.channel_vars = update_channel_controls(s2.current_data)]
              ELSE s2
        s4 == [s3 EXCEPT !.cursors = [n \in NameSet |-> BlankCursor]]
        s5 == RestorePair(s4, s4.time_cursor_var, TimePair)
        s6 == RestorePair(s5, s5.volt_cursor_var, VoltPair)
    IN ParentMasterUpdate(s6)

\* a disable that stores the positions and leaves the lines on the plot
StoreAndRemove_KeepLines(s, pair) ==
    LET keep(n) == IF s.cursors[n].line THEN s.cursors[n].value
                   ELSE s.cursor_positions[n]
    IN [s EXCEPT !.cursor_positions[pair[1]] = keep(pair[1]),
                 !.cursor_positions[pair[2]] = keep(pair[2])]

\* "Store cursor positions before removing", then remove both markers
StoreAndRemove(s, pair) ==
    LET keep(n) == IF s.cursors[n].line THEN s.cursors[n].value
                   ELSE s.cursor_positions[n]
        s1 == [s EXCEPT !.cursor_positions[pair[1]] = keep(pair[1]),
                        !.cursor_positions[pair[2]] = keep(pair[2])]
    IN remove_cursor(remove_cursor(s1, pair[1]), pair[2])

\* an enable that restores the markers but always waits for marker 1 next
EnablePair_AwaitFirst(s, pair, mode) ==
    IF s.cursor_positions[pair[1]] # None
    THEN LET s1 == add_cursor(s, pair[1], s.cursor_positions[pair[1]])
         IN IF s.cursor_positions[pair[2]] # None
            THEN [add_cursor(s1, pair[2], s.cursor_positions[pair[2]])
                     EXCEPT !.cursor_placement_mode = NoName]
            ELSE [s1 EXCEPT !.cursor_placement_mode = mode,
                            !.last_cursor_click = NoName]
    ELSE [s EXCEPT !.cursor_placement_mode = mode,
                   !.last_cursor_click = NoName]

\* "Enable cursors and restore positions if they exist"
EnablePair(s, pair, mode) ==
    IF s.cursor_positions[pair[1]] # None
    THEN LET s1 == add_cursor(s, pair[1], s.cursor_positions[pair[1]])
         IN IF s.cursor_positions[pair[2]] # None
            THEN [add_cursor(s1, pair[2], s.cursor_positions[pair[2]])
                     EXCEPT !.cursor_placement_mode = NoName]
            ELSE [s1 EXCEPT !.cursor_placement_mode = mode,
                            !.last_cursor_click = pair[1]]
    ELSE [s EXCEPT !.cursor_placement_mode = mode,
                   !.last_cursor_click = NoName]

\* runs with time_cursor_var already flipped by the checkbutton
toggle_time_cursors(s) ==
    LET s1 ==
          IF ~s.time_cursor_var
          THEN LET r == StoreAndRemove(s, TimePair)
               IN IF r.cursor_placement_mode = "time"
                  THEN IF r.volt_cursor_var
                       THEN [r EXCEPT !.cursor_placement_mode = "voltage"]
                       ELSE [r EXCEPT !.cursor_placement_mode = NoName,
                                      !.last_cursor_click = NoName]
                  ELSE r
          ELSE EnablePair(s, TimePair, "time")
    IN ParentMasterUpdate(s1)

\* runs with volt_cursor_var already flipped by the checkbutton
toggle_voltage_cursors(s) ==
    LET s1 ==
          IF ~s.volt_cursor_var
          THEN LET r == StoreAndRemove(s, VoltPair)
               IN IF r.cursor_placement_mode = "voltage"
                  THEN IF r.time_cursor_var
                       THEN [r EXCEPT !.cursor_placement_mode = "time"]
                       ELSE [r EXCEPT !.cursor_placement_mode = NoName,
                                      !.last_cursor_click = NoName]
                  ELSE r
          ELSE EnablePair(s, VoltPair, "voltage")
    IN ParentMasterUpdate(s1)

\* a placement that puts both markers of the pair at the pointer
HandlePlacement_BothMarkers(s, pair, mode, coord) ==
    LET s1 == add_cursor(add_cursor(s, pair[1], coord), pair[2], coord)
    IN ParentMasterUpdate(
           [s1 EXCEPT !.cursor_positions[pair[1]] = coord,
                      !.cursor_positions[pair[2]] = coord,
                      !.cursor_placement_mode = NoName,
                      !.last_cursor_click = NoName])

\* the body shared by the two placement handlers
HandlePlacement(s, pair, mode, coord) ==
    LET s0 == IF s.cursor_placement_mode # mode
              THEN [s EXCEPT !.cursor_placement_mode = mode,
                             !.last_cursor_click = NoName]
              ELSE s
        s1 == IF s0.last_cursor_click = NoName
              THEN [add_cursor(s0, pair[1], coord)
                      EXCEPT !.cursor_positions[pair[1]] = coord,
                             !.last_cursor_click = pair[1]]
              ELSE [add_cursor(s0, pair[2], coord)
                      EXCEPT !.cursor_positions[pair[2]] = coord,
                             !.cursor_placement_mode = NoName,
                             !.last_cursor_click = NoName]
    IN ParentMasterUpdate(s1)

_handle_time_cursor_placement(s, event) ==
    HandlePlacement(s, TimePair, "time", event.xdata)

\* a voltage placement that writes the markers of the time pair
_handle_voltage_cursor_placement_OnTimePair(s, event) ==
    HandlePlacement(s, TimePair, "voltage", event.ydata)

_handle_voltage_cursor_placement(s, event) ==
    HandlePlacement(s, VoltPair, "voltage", event.ydata)

\* a dispatch that falls back to the voltage pair before the time pair
PlacementTarget_VoltageDefault(s) ==
    IF s.time_cursor_var /\ s.cursor_placement_mode = "time" THEN "time"
    ELSE IF s.volt_cursor_var /\ s.cursor_placement_mode = "voltage" THEN "voltage"
    ELSE IF s.volt_cursor_var THEN "voltage"
    ELSE IF s.time_cursor_var THEN "time"
    ELSE NoName

\* which pair a double-click goes to: "time", "voltage" or NoName
PlacementTarget(s) ==
    IF s.time_cursor_var /\ s.cursor_placement_mode = "time" THEN "time"
    ELSE IF s.volt_cursor_var /\ s.cursor_placement_mode = "voltage" THEN "voltage"
    ELSE IF s.time_cursor_var THEN "time"
    ELSE IF s.volt_cursor_var THEN "voltage"
    ELSE NoName

on_plot_click(s, event) ==
    IF ~event.inaxes \/ event.toolbar_mode # "" THEN s
    ELSE IF event.button = 1 /\ event.dblclick
    THEN LET target == PlacementTarget(s)
         IN IF target = "time"
            THEN _handle_time_cursor_placement(
                     [s EXCEPT !.cursor_placement_mode = "time"], event)
            ELSE IF target = "voltage"
            THEN _handle_voltage_cursor_placement(
                     [s EXCEPT !.cursor_placement_mode = "voltage"], event)
            ELSE s
    ELSE IF event.button = 1 THEN on_click(s, event)
    ELSE s

\* PlotManager.on_motion: an exception of the cursor manager's handler ends it
PlotManager_on_motion(s, event) ==
    LET r == on_motion(s, event)
    IN IF r.raised THEN r.st
       ELSE IF r.st.dragging THEN ParentMasterUpdate(r.st) ELSE r.st

PlotManager_on_release(s) ==
    LET was_dragging == s.dragging
        s1 == on_release(s)
    IN IF was_dragging THEN ParentMasterUpdate(s1) ELSE s1

\* ------------------------------------------------------------- OscilloscopeViewer
Viewer_load_data(s, filepath) ==
    LET r == load_data([s EXCEPT !.status = <<"Loading">>], filepath)
    IN IF r.raised
       THEN [r.st EXCEPT !.status = <<"Error">>]
       ELSE [update_measurements(update_plot(r.st, r.data, r.metadata, filepath))
               EXCEPT !.status = <<"Successfully loaded">>]

change_theme(s) ==
    update_measurements(update_plot(s, NoData, <<>>, NoName))

\* ------------------------------------------------------------- events
\* the visible ranges <<x range, y range>> of the axes a press is tried with:
\* degenerate, and wide enough on one axis or on both to reach one unit away
AxisRanges == {<<0, 0>>, <<50, 100>>, <<100, 50>>, <<100, 100>>}

Apply(s) ==
    /\ dh_data' = s.dh_data
    /\ dh_metadata' = s.dh_metadata
    /\ current_data' = s.current_data
    /\ current_metadata' = s.current_metadata
    /\ current_file' = s.current_file
    /\ cursor_positions' = s.cursor_positions
    /\ file_cursor_positions' = s.file_cursor_positions
    /\ channel_vars' = s.channel_vars
    /\ time_cursor_var' = s.time_cursor_var
    /\ volt_cursor_var' = s.volt_cursor_var
    /\ cursors' = s.cursors
    /\ dragging' = s.dragging
    /\ active_cursor' = s.active_cursor
    /\ cursor_placement_mode' = s.cursor_placement_mode
    /\ last_cursor_click' = s.last_cursor_click
    /\ cursor_pos' = s.cursor_pos
    /\ delta_t_var' = s.delta_t_var
    /\ delta_v_var' = s.delta_v_var
    /\ cursor_freq_var' = s.cursor_freq_var
    /\ measurements' = s.measurements
    /\ status' = s.status
    /\ events < MaxEvents
    /\ events' = events + 1
    /\ UNCHANGED <<disk, loaded>>

\* no file is handed to load_data directly, and no such call has been made
NoDisk == [k |-> 0, header |-> <<>>, m |-> 0]
NotLoaded == [called |-> FALSE, raised |-> FALSE, data |-> NoData, metadata |-> <<>>]

\* the state the constructors leave
Constructed ==
    [dh_data |-> NoData, dh_metadata |-> <<>>,
     current_data |-> NoData, current_metadata |-> <<>>,
     current_file |-> NoName, cursor_positions |-> NoPositions,
     file_cursor_positions |-> <<>>,
     channel_vars |-> <<>>, time_cursor_var |-> FALSE,
     volt_cursor_var |-> FALSE, cursors |-> [n \in NameSet |-> BlankCursor],
     dragging |-> FALSE, active_cursor |-> NoName,
     cursor_placement_mode |-> NoName,
     last_cursor_click |-> NoName,
     cursor_pos |-> [n \in NameSet |-> Dashes],
     delta_t_var |-> Dashes, delta_v_var |-> Dashes,
     cursor_freq_var |-> Dashes, measurements |-> <<>>,
     status |-> <<"Ready">>]

\* Construction is followed by the deferred cursor_manager.set_theme, which
\* ends in update_cursor_positions.
Init ==
    LET s == update_cursor_positions(Constructed)
    IN /\ dh_data = s.dh_data
       /\ dh_metadata = s.dh_metadata
       /\ current_data = s.current_data
       /\ current_metadata = s.current_metadata
       /\ current_file = s.current_file
       /\ cursor_positions = s.cursor_positions
       /\ file_cursor_positions = s.file_cursor_positions
       /\ channel_vars = s.channel_vars
       /\ time_cursor_var = s.time_cursor_var
       /\ volt_cursor_var = s.volt_cursor_var
       /\ cursors = s.cursors
       /\ dragging = s.dragging
       /\ active_cursor = s.active_cursor
       /\ cursor_placement_mode = s.cursor_placement_mode
       /\ last_cursor_click = s.last_cursor_click
       /\ cursor_pos = s.cursor_pos
       /\ delta_t_var = s.delta_t_var
       /\ delta_v_var = s.delta_v_var
       /\ cursor_freq_var = s.cursor_freq_var
       /\ measurements = s.measurements
       /\ status = s.status
       /\ button_down = FALSE
       /\ last_enabled = NoName
       /\ events = 0
       /\ disk = NoDisk
       /\ loaded = NotLoaded

\* the Time checkbutton: flips its variable, then runs its command
ToggleTime ==
    /\ Apply(toggle_time_cursors([State EXCEPT !.time_cursor_var = ~@]))
    /\ last_enabled' = IF ~time_cursor_var THEN "time" ELSE last_enabled
    /\ UNCHANGED button_down

ToggleVoltage ==
    /\ Apply(toggle_voltage_cursors([State EXCEPT !.volt_cursor_var = ~@]))
    /\ last_enabled' = IF ~volt_cursor_var THEN "voltage" ELSE last_enabled
    /\ UNCHANGED button_down

\* a channel checkbutton: flips its variable, then runs update_plot()
ToggleChannel ==
    \E ch \in DOMAIN channel_vars :
        /\ Apply(update_plot([State EXCEPT !.channel_vars[ch] = ~@],
                             NoData, <<>>, NoName))
        /\ UNCHANGED <<button_down, last_enabled>>

ChangeTheme ==
    /\ Apply(change_theme(State))
    /\ UNCHANGED <<button_down, last_enabled>>

\* the file tree's selection callback
SelectFileAt(filepath) ==
    /\ Apply(Viewer_load_data(State, filepath))
    /\ UNCHANGED <<button_down, last_enabled>>

SelectFile == \E filepath \in Files \cup BadFiles : SelectFileAt(filepath)

PointerEvent(x, y, xw, yw, dbl) ==
    [inaxes |-> TRUE, toolbar_mode |-> "", button |-> 1, dblclick |-> dbl,
     xdata |-> x, ydata |-> y, xwidth |-> xw, ywidth |-> yw]

\* button_press_event of a left double-click.  No marker is active when the
\* button is up, so the release that follows does nothing and is not a step.
DoubleClickAt(x, y) ==
    /\ ~button_down
    /\ Apply(on_plot_click(State, PointerEvent(x, y, 0, 0, TRUE)))
    /\ UNCHANGED <<button_down, last_enabled>>

DoubleClick == \E x \in Coords, y \in Coords : DoubleClickAt(x, y)

\* button_press_event of a single left click; the axes' visible ranges at
\* that moment are xw and yw
PointerDownAt(x, y, xw, yw) ==
    /\ ~button_down
    /\ Apply(on_plot_click(State, PointerEvent(x, y, xw, yw, FALSE)))
    /\ button_down' = TRUE
    /\ UNCHANGED last_enabled

PointerDown ==
    \E x \in Coords, y \in Coords, r \in AxisRanges :
        PointerDownAt(x, y, r[1], r[2])

\* motion_notify_event
PointerMoveAt(x, y) ==
    /\ Apply(PlotManager_on_motion(State, PointerEvent(x, y, 0, 0, FALSE)))
    /\ UNCHANGED <<button_down, last_enabled>>

PointerMove == \E x \in Coords, y \in Coords : PointerMoveAt(x, y)

\* button_release_event
PointerUp ==
    /\ button_down
    /\ Apply(PlotManager_on_release(State))
    /\ button_down' = FALSE
    /\ UNCHANGED last_enabled

Next ==
    \/ ToggleTime
    \/ ToggleVoltage
    \/ ToggleChannel
    \/ ChangeTheme
    \/ SelectFile
    \/ DoubleClick
    \/ PointerDown
    \/ PointerMove
    \/ PointerUp

Spec == Init /\ [][Next]_vars

\* ------------------------------------------------------------- the measurement engine alone
\* A frame of n uniformly spaced samples: CH1 arbitrary, CH2 constant.
Waveform(n, step, ch1, level) ==
    [c \in RequiredColumns |->
        IF c = "TIME" THEN [i \in 1..n |-> (i - 1) * step]
        ELSE IF c = "CH1" THEN ch1
        ELSE [i \in 1..n |-> level]]

Waveforms ==
    UNION {{Waveform(n, step, ch1, level) :
               step \in 1..MaxStep, ch1 \in [1..n -> 0..MaxSample], level \in 0..MaxSample} :
           n \in 2..MaxLen}

\* a DataHandler holding a decoded frame, the rest as constructed
InitMeas ==
    /\ dh_data \in Waveforms
    /\ dh_metadata = <<>>
    /\ current_data = Constructed.current_data
    /\ current_metadata = Constructed.current_metadata
    /\ current_file = Constructed.current_file
    /\ cursor_positions = Constructed.cursor_positions
    /\ file_cursor_positions = Constructed.file_cursor_positions
    /\ channel_vars = Constructed.channel_vars
    /\ time_cursor_var = Constructed.time_cursor_var
    /\ volt_cursor_var = Constructed.volt_cursor_var
    /\ cursors = Constructed.cursors
    /\ dragging = Constructed.dragging
    /\ active_cursor = Constructed.active_cursor
    /\ cursor_placement_mode = Constructed.cursor_placement_mode
    /\ last_cursor_click = Constructed.last_cursor_click
    /\ cursor_pos = Constructed.cursor_pos
    /\ delta_t_var = Constructed.delta_t_var
    /\ delta_v_var = Constructed.delta_v_var
    /\ cursor_freq_var = Constructed.cursor_freq_var
    /\ measurements = <<>>
    /\ status = Constructed.status
    /\ button_down = FALSE
    /\ last_enabled = NoName
    /\ events = 0
    /\ disk = NoDisk
    /\ loaded = NotLoaded

\* data_handler.get_measurements(channel), its result kept under the channel
MeasureChannel ==
    \E ch \in {"CH1", "CH2"} :
        /\ measurements' = Put(measurements, ch, get_measurements(dh_data, ch))
        /\ UNCHANGED <<dh_data, dh_metadata, current_data, current_metadata,
                       current_file, cursor_positions, file_cursor_positions,
                       channel_vars, time_cursor_var, volt_cursor_var, cursors,
                       dragging, active_cursor, cursor_placement_mode,
                       last_cursor_click, cursor_pos, delta_t_var, delta_v_var,
                       cursor_freq_var, status, button_down, last_enabled,
                       events, disk, loaded>>

NextMeas == MeasureChannel

SpecMeas == InitMeas /\ [][NextMeas]_vars

\* ------------------------------------------------------------- the file loader alone
\* Files of every layout: k key,value lines, then a header line or none, then
\* m data rows as wide as the header.
MaxMeta == 15
MaxRows == 2

MetaSupply ==
    MetaBlock \o << TextLine(<<"Label", "capture">>), TextLine(<<"Note", "bench 2">>),
                    TextLine(<<"Operator", "lab">>), TextLine(<<"Probe", "P6139A">>) >>
RowText == <<"0", "1", "2", "3">>
FullHeader == <<"TIME", "CH1", "CH2">>
Headers == {FullHeader, <<"TIME", "CH1">>, <<"TIME", "CH2">>, <<"CH1", "CH2">>, <<>>}

Disks == [k : 0..MaxMeta, header : Headers, m : 0..MaxRows]

\* a data row: its fields are kept as the text the file holds
RowOf(r, width) ==
    [kind |-> "num", f |-> [j \in 1..width |-> RowText[((r - 1) % Len(RowText)) + 1]]]

\* the lines of the file that d lays out
DiskLines(d) ==
    LET width == IF d.header = <<>> THEN Len(FullHeader) ELSE Len(d.header)
    IN SubSeq(MetaSupply, 1, d.k)
       \o (IF d.header = <<>> THEN <<>> ELSE <<TextLine(d.header)>>)
       \o [r \in 1..d.m |-> RowOf(r, width)]

\* a DataHandler as constructed and a file to hand to it
InitLoad ==
    /\ dh_data = Constructed.dh_data
    /\ dh_metadata = Constructed.dh_metadata
    /\ current_data = Constructed.current_data
    /\ current_metadata = Constructed.current_metadata
    /\ current_file = Constructed.current_file
    /\ cursor_positions = Constructed.cursor_positions
    /\ file_cursor_positions = Constructed.file_cursor_positions
    /\ channel_vars = Constructed.channel_vars
    /\ time_cursor_var = Constructed.time_cursor_var
    /\ volt_cursor_var = Constructed.volt_cursor_var
    /\ cursors = Constructed.cursors
    /\ dragging = Constructed.dragging
    /\ active_cursor = Constructed.active_cursor
    /\ cursor_placement_mode = Constructed.cursor_placement_mode
    /\ last_cursor_click = Constructed.last_cursor_click
    /\ cursor_pos = Constructed.cursor_pos
    /\ delta_t_var = Constructed.delta_t_var
    /\ delta_v_var = Constructed.delta_v_var
    /\ cursor_freq_var = Constructed.cursor_freq_var
    /\ measurements = <<>>
    /\ status = Constructed.status
    /\ button_down = FALSE
    /\ last_enabled = NoName
    /\ events = 0
    /\ disk \in Disks
    /\ loaded = NotLoaded

\* data_handler.load_data(filepath) on that file
LoadDisk ==
    LET r == LoadRead(State, ReadFile(DiskLines(disk)))
    IN /\ dh_data' = r.st.dh_data
       /\ dh_metadata' = r.st.dh_metadata
       /\ loaded' = [called |-> TRUE, raised |-> r.raised, data |-> r.data,
                     metadata |-> r.metadata]
       /\ UNCHANGED <<current_data, current_metadata, current_file,
                      cursor_positions, file_cursor_positions, channel_vars,
                      time_cursor_var, volt_cursor_var, cursors, dragging,
                      active_cursor, cursor_placement_mode, last_cursor_click,
                      cursor_pos, delta_t_var, delta_v_var, cursor_freq_var,
                      measurements, status, button_down, last_enabled, events,
                      disk>>

NextLoad == LoadDisk

SpecLoad == InitLoad /\ [][NextLoad]_vars

\* ------------------------------------------------------------- claims

\* C1: for every channel whose samples are all equal (vpp == 0) and that has
\* n >= 2 samples, get_measurements returns freq, period, duty, rise_time and
\* fall_time all equal to 0.
C1_ConstantChannelAllZero ==
    \A ch \in DOMAIN measurements :
        (measurements[ch].vpp = 0 /\ Len(dh_data[ch]) >= 2) =>
            /\ RatIsZero(measurements[ch].freq)
            /\ RatIsZero(measurements[ch].period)
            /\ RatIsZero(measurements[ch].duty)
            /\ RatIsZero(measurements[ch].rise_time)
            /\ RatIsZero(measurements[ch].fall_time)

\* the Time checkbutton switched off and at once on again
DisableEnableTime(s) ==
    toggle_time_cursors(
        [toggle_time_cursors([s EXCEPT !.time_cursor_var = FALSE])
            EXCEPT !.time_cursor_var = TRUE])

\* the Voltage checkbutton switched off and at once on again
DisableEnableVoltage(s) ==
    toggle_voltage_cursors(
        [toggle_voltage_cursors([s EXCEPT !.volt_cursor_var = FALSE])
            EXCEPT !.volt_cursor_var = TRUE])

SamePairMarkers(s, pair) ==
    \A i \in 1..2 :
        /\ s.cursors[pair[i]].line = cursors[pair[i]].line
        /\ s.cursors[pair[i]].value = cursors[pair[i]].value

\* C2: for either pair, in any reachable state with a file loaded, disabling
\* the pair's toggle and then re-enabling it on the same file puts both
\* markers of the pair back at the positions (or absence) they had just
\* before the disable.
C2_DisableEnableRestores ==
    current_file # NoName =>
        /\ time_cursor_var => SamePairMarkers(DisableEnableTime(State), TimePair)
        /\ volt_cursor_var => SamePairMarkers(DisableEnableVoltage(State), VoltPair)

\* a file selection that leaves the displayed file for `other` and one that
\* comes back to the file displayed now
LeaveAndReturn(s, other) ==
    Viewer_load_data(Viewer_load_data(s, other), s.current_file)

\* C3: switching from a file to another file and back, with the pairs enabled,
\* shows the file's four markers at the positions they had when the file was
\* last displayed (dragged positions included); the memory entry of the file
\* is written when it is left.
C3_SwitchBackRestores ==
    \A other \in Files :
        (current_file \in Files \ {other} /\ time_cursor_var /\ volt_cursor_var) =>
            /\ Viewer_load_data(State, other).file_cursor_positions[current_file]
                   = cursor_positions
            /\ SamePairMarkers(LeaveAndReturn(State, other), TimePair)
            /\ SamePairMarkers(LeaveAndReturn(State, other), VoltPair)

\* a step of the pointer on the plot: placement gesture or drag gesture
PointerStep == DoubleClick \/ PointerDown \/ PointerMove \/ PointerUp

\* C4: when no waveform has been loaded, a placement gesture or a drag gesture
\* changes no cursor state: the four markers stay absent and the remembered
\* positions stay unset.
C4_NoWaveformNoOp ==
    [][(current_data = NoData /\ PointerStep) =>
           /\ cursors' = cursors
           /\ cursor_positions' = cursor_positions
           /\ \A n \in NameSet : ~cursors'[n].line /\ cursor_positions'[n] = None]_vars

\* both markers of a pair are on the plot
BothPlaced(pair) == cursors[pair[1]].line /\ cursors[pair[2]].line

\* marker n of cs stands at coordinate c
PlacedAt(cs, n, c) == cs[n].line /\ cs[n].value = c

PairOf(mode) == IF mode = "time" THEN TimePair ELSE VoltPair
OtherPair(mode) == IF mode = "time" THEN VoltPair ELSE TimePair
OtherMode(mode) == IF mode = "time" THEN "voltage" ELSE "time"
PairEnabled(mode) == IF mode = "time" THEN time_cursor_var ELSE volt_cursor_var

\* the pair a double-click is for, read off the toggles and the placement mode
GestureTarget ==
    IF time_cursor_var /\ ~(volt_cursor_var /\ cursor_placement_mode = "voltage")
    THEN "time"
    ELSE IF volt_cursor_var THEN "voltage" ELSE NoName

\* the coordinate of a pointer at (x, y) on the axis of a pair
CoordFor(mode, x, y) == IF mode = "time" THEN x ELSE y

\* the handlers as the events run them on state s: a double-click at (x, y),
\* a single press at (x, y) with visible ranges (xw, yw), a pointer-move to
\* (x, y), and a click on the checkbutton of a pair
Dbl(s, x, y) == on_plot_click(s, PointerEvent(x, y, 0, 0, TRUE))
Press(s, x, y, xw, yw) == on_plot_click(s, PointerEvent(x, y, xw, yw, FALSE))
MoveTo(s, x, y) == PlotManager_on_motion(s, PointerEvent(x, y, 0, 0, FALSE))
FlipToggle(s, mode) ==
    IF mode = "time"
    THEN toggle_time_cursors([s EXCEPT !.time_cursor_var = ~@])
    ELSE toggle_voltage_cursors([s EXCEPT !.volt_cursor_var = ~@])

\* a step that switches a pair's toggle off, and one that switches it on
DisableStep(mode) ==
    IF mode = "time" THEN ToggleTime /\ time_cursor_var
    ELSE ToggleVoltage /\ volt_cursor_var
EnableStep(mode) ==
    IF mode = "time" THEN ToggleTime /\ ~time_cursor_var
    ELSE ToggleVoltage /\ ~volt_cursor_var

\* C5 (as stated): once both markers of a pair are placed, a further placement
\* gesture changes neither marker's position, and a marker position of the
\* pair changes only by a drag, by disabling the toggle or by loading a file.
C5_BothPlacedIsTerminal ==
    [][\A mode \in {"time", "voltage"} :
          BothPlaced(PairOf(mode)) =>
              /\ DoubleClick => SamePairMarkers(State', PairOf(mode))
              /\ ~SamePairMarkers(State', PairOf(mode)) =>
                     PointerMove \/ DisableStep(mode) \/ SelectFile]_vars

\* C5 (amended): once both markers of a pair are placed, a further placement
\* gesture for the pair moves exactly one of its markers to the pointer's
\* coordinate (marker 1 when last_cursor_click is unset, marker 2 otherwise)
\* and leaves the three other markers as they are; a pointer-down, a
\* pointer-up and a toggle of the other pair change no position of the pair.
C5_PlacementMovesOneMarker ==
    \A mode \in {"time", "voltage"} :
        BothPlaced(PairOf(mode)) =>
            /\ (GestureTarget = mode /\ ~button_down) =>
                  \A x \in Coords, y \in Coords :
                      LET moved == IF last_cursor_click = NoName
                                   THEN PairOf(mode)[1] ELSE PairOf(mode)[2]
                      IN /\ PlacedAt(Dbl(State, x, y).cursors, moved,
                                     CoordFor(mode, x, y))
                         /\ \A n \in NameSet \ {moved} :
                               Dbl(State, x, y).cursors[n] = cursors[n]
            /\ ~button_down =>
                  \A x \in Coords, y \in Coords, <<xw, yw>> \in AxisRanges :
                      SamePairMarkers(Press(State, x, y, xw, yw), PairOf(mode))
            /\ SamePairMarkers(PlotManager_on_release(State), PairOf(mode))
            /\ SamePairMarkers(FlipToggle(State, OtherMode(mode)), PairOf(mode))

\* a complete pair one of whose markers has just been placed again
C5_Witness ==
    /\ current_file # NoName
    /\ BothPlaced(TimePair)
    /\ cursor_placement_mode = "time"
    /\ last_cursor_click = "time1"
    /\ cursor_positions["time1"] # cursor_positions["time2"]

\* state t has the markers of the pair `mode` where they are now
KeepsPair(t, mode) ==
    \A i \in 1..2 :
        /\ t.cursors[PairOf(mode)[i]] = cursors[PairOf(mode)[i]]
        /\ t.cursor_positions[PairOf(mode)[i]] = cursor_positions[PairOf(mode)[i]]

\* in state t the double-click at (x, y) has placed a marker of the pair
\* `mode` and left the other pair alone
PlacesMarkerOf(t, mode, x, y) ==
    /\ \E i \in 1..2 :
          /\ PlacedAt(t.cursors, PairOf(mode)[i], CoordFor(mode, x, y))
          /\ t.cursor_positions[PairOf(mode)[i]] = CoordFor(mode, x, y)
    /\ KeepsPair(t, OtherMode(mode))

\* C6 (as stated): while both pairs are enabled, every placement gesture
\* places a marker of the pair whose toggle was turned on most recently, and
\* enabling one pair never removes or moves a marker of the other pair.
C6_PlacementGoesToLastEnabled ==
    [][/\ \A x \in Coords, y \in Coords :
             (time_cursor_var /\ volt_cursor_var /\ DoubleClickAt(x, y)) =>
                 PlacesMarkerOf(State', last_enabled, x, y)
       /\ \A mode \in {"time", "voltage"} :
             EnableStep(mode) => KeepsPair(State', OtherMode(mode))]_vars

\* C6 (amended): while both pairs are enabled, a placement gesture places a
\* marker of the pair named by cursor_placement_mode, and of the time pair
\* when cursor_placement_mode is unset; turning a pair's toggle on sets
\* cursor_placement_mode to that pair unless both its markers come back from
\* memory, which unsets it; enabling one pair never removes or moves a marker
\* of the other pair.
C6_PlacementGoesToModePair ==
    /\ (time_cursor_var /\ volt_cursor_var /\ ~button_down) =>
          \A x \in Coords, y \in Coords :
              PlacesMarkerOf(Dbl(State, x, y),
                             IF cursor_placement_mode = "voltage"
                             THEN "voltage" ELSE "time", x, y)
    /\ \A mode \in {"time", "voltage"} :
          ~PairEnabled(mode) =>
              LET t == FlipToggle(State, mode)
              IN /\ t.cursor_placement_mode =
                       IF t.cursors[PairOf(mode)[1]].line /\ t.cursors[PairOf(mode)[2]].line
                       THEN NoName ELSE mode
                 /\ KeepsPair(t, OtherMode(mode))

\* both pairs enabled, the voltage pair last, each with a marker placed
C6_Witness ==
    /\ time_cursor_var /\ volt_cursor_var
    /\ last_enabled = "voltage"
    /\ cursors["time1"].line /\ cursors["volt1"].line
    /\ ~cursors["time2"].line

\* marker n is on the plot and the pointer at (x, y) is closer to it than 2%
\* of the visible range (xw, yw) of the marker's axis
Within2Percent(n, x, y, xw, yw) ==
    /\ cursors[n].line
    /\ IF IsTimeName(n)
       THEN 100 * Abs(x - cursors[n].value) < 2 * xw
       ELSE 100 * Abs(y - cursors[n].value) < 2 * yw

\* state t differs from state s at most in marker n
MovesOnly(s, t, n) == \A m \in NameSet \ {n} : t.cursors[m] = s.cursors[m]

\* in state t the drag of marker n has put it at the pointer (x, y)
DraggedTo(t, n, x, y) ==
    PlacedAt(t.cursors, n, IF IsTimeName(n) THEN x ELSE y)

\* C7: a pointer-down that is not within the proximity tolerance (2% of the
\* visible axis range) of any marker starts no drag, and the pointer-moves
\* that follow change no marker; a pointer-down within tolerance of exactly
\* one marker starts the drag of that marker, and the pointer-moves that
\* follow set that marker, and no other, to the pointer's coordinate on the
\* marker's axis.
C7_DragOnlyWithinTolerance ==
    /\ ~button_down =>
         \A x \in Coords, y \in Coords, <<xw, yw>> \in AxisRanges :
            LET s == Press(State, x, y, xw, yw)
            IN /\ (\A n \in NameSet : ~Within2Percent(n, x, y, xw, yw)) =>
                      /\ ~s.dragging /\ s.active_cursor = NoName
                      /\ s.cursors = cursors
               /\ \A n \in NameSet :
                      (/\ Within2Percent(n, x, y, xw, yw)
                       /\ \A m \in NameSet \ {n} : ~Within2Percent(m, x, y, xw, yw)) =>
                          /\ s.dragging /\ s.active_cursor = n
                          /\ \A m \in NameSet : s.cursors[m].value = cursors[m].value
    /\ (~dragging \/ active_cursor = NoName) =>
         \A x \in Coords, y \in Coords : MoveTo(State, x, y).cursors = cursors
    /\ (dragging /\ active_cursor # NoName /\ cursors[active_cursor].line) =>
         \A x \in Coords, y \in Coords :
            /\ DraggedTo(MoveTo(State, x, y), active_cursor, x, y)
            /\ MovesOnly(State, MoveTo(State, x, y), active_cursor)

\* a drag has moved marker time1 away from its remembered position
C7_Witness ==
    /\ button_down /\ dragging /\ active_cursor = "time1"
    /\ cursors["time1"].line
    /\ cursors["time1"].value # cursor_positions["time1"]

\* the states the handlers other than the release can leave from state s
\* while the button is held
WhileHeld(s) ==
    {toggle_time_cursors([s EXCEPT !.time_cursor_var = ~@]),
     toggle_voltage_cursors([s EXCEPT !.volt_cursor_var = ~@]),
     change_theme(s)}
    \cup {Viewer_load_data(s, filepath) : filepath \in Files \cup BadFiles}
    \cup {update_plot([s EXCEPT !.channel_vars[ch] = ~@], NoData, <<>>, NoName) :
             ch \in DOMAIN s.channel_vars}
    \cup {MoveTo(s, x, y) : x \in Coords, y \in Coords}

\* C8: at most one marker is dragged at a time: of the markers within
\* tolerance at pointer-down only the first in the order time1, time2, volt1,
\* volt2 claims the drag; until the pointer-up the drag stays with that
\* marker, and a pointer-move changes no other marker.
C8_FirstFoundClaimsDrag ==
    /\ (active_cursor # NoName) = dragging
    /\ ~button_down =>
         \A x \in Coords, y \in Coords, <<xw, yw>> \in AxisRanges :
            \A i \in 1..4 :
                (/\ Within2Percent(CursorNames[i], x, y, xw, yw)
                 /\ \A j \in 1..(i - 1) :
                       ~Within2Percent(CursorNames[j], x, y, xw, yw)) =>
                    LET s == Press(State, x, y, xw, yw)
                    IN s.dragging /\ s.active_cursor = CursorNames[i]
    /\ dragging =>
         /\ \A t \in WhileHeld(State) :
               t.dragging /\ t.active_cursor = active_cursor
         /\ \A x \in Coords, y \in Coords :
               MovesOnly(State, MoveTo(State, x, y), active_cursor)
    /\ dragging =>
         PlotManager_on_release(State).active_cursor = NoName

\* time1 holds the drag although time2 stands at the same coordinate
C8_Witness ==
    /\ button_down /\ dragging /\ active_cursor = "time1"
    /\ cursors["time1"].line /\ cursors["time2"].line
    /\ cursors["time1"].value = cursors["time2"].value
    /\ cursor_positions["time1"] = cursors["time1"].value

\* C9: a file load that fails with an input format error (header token or a
\* required column absent) leaves the store's data and metadata, the plot's
\* current waveform and current file, the per-file cursor memory and the four
\* cursor positions as they were.
C9_FailedLoadChangesNothing ==
    \A filepath \in BadFiles :
        LET t == Viewer_load_data(State, filepath)
        IN /\ t.status = <<"Error">>
           /\ t.dh_data = dh_data /\ t.dh_metadata = dh_metadata
           /\ t.current_data = current_data
           /\ t.current_metadata = current_metadata
           /\ t.current_file = current_file
           /\ t.file_cursor_positions = file_cursor_positions
           /\ t.cursor_positions = cursor_positions
           /\ t.cursors = cursors

\* a load has failed while a file with a placed marker is displayed
C9_Witness ==
    /\ status = <<"Error">>
    /\ current_file # NoName
    /\ dh_data # NoData
    /\ \E n \in NameSet : cursors[n].line /\ cursor_positions[n] # None

\* C10: at the end of every handler that changes cursor state the displayed
\* readouts T1, T2, V1, V2, delta-T, delta-V and 1/delta-T equal the values
\* derived from the cursor state at that moment.
C10_ReadoutsFollowCursors ==
    LET shown == update_measurements(State)
    IN /\ cursor_pos = shown.cursor_pos
       /\ delta_t_var = shown.delta_t_var
       /\ delta_v_var = shown.delta_v_var
       /\ cursor_freq_var = shown.cursor_freq_var

\* the channels whose checkbutton is ticked
EnabledChannels == {ch \in DOMAIN channel_vars : channel_vars[ch]}

\* C11: whenever the loaded waveform or a channel's visibility toggle changes,
\* the per-channel automatic results are recomputed within that event, so that
\* the channels with displayed results are the currently enabled channels.
C11_ResultsForEnabledChannels ==
    DOMAIN measurements = EnabledChannels

\* t has no marker of the pair: no line and no position
PairAbsent(t, pair) ==
    \A i \in 1..2 : ~t.cursors[pair[i]].line /\ t.cursors[pair[i]].value = None

\* C12: in every reachable state a pair whose toggle is off has both of its
\* markers absent (no position and no line): markers exist only for enabled
\* pairs.
C12_DisabledPairHasNoMarkers ==
    /\ ~time_cursor_var => PairAbsent(State, TimePair)
    /\ ~volt_cursor_var => PairAbsent(State, VoltPair)

\* the Time toggle has been switched off on a file where time1 had been placed
C12_Witness ==
    /\ current_file # NoName
    /\ ~time_cursor_var
    /\ cursor_positions["time1"] # None
    /\ PairAbsent(State, TimePair)

\* both time markers carry a position
BothTimePlaced == cursors["time1"].value # None /\ cursors["time2"].value # None

\* the distance between two marker coordinates
Distance(a, b) == IF a <= b THEN b - a ELSE a - b

\* C13: with time marker 1 at t1 and time marker 2 at t2, get_cursor_measurements
\* reports delta_t = |t2 - t1|; delta_t and the cursor frequency are reported
\* exactly when both time markers are placed; when delta_t is 0 the frequency
\* is the infinite sentinel, otherwise it is 1/delta_t.
C13_DeltaTBetweenTimeMarkers ==
    LET cm == get_cursor_measurements(cursors)
        t1 == cursors["time1"].value
        t2 == cursors["time2"].value
    IN /\ cm.has_freq <=> BothTimePlaced
       /\ (cm.delta_t # None) <=> BothTimePlaced
       /\ BothTimePlaced =>
            /\ cm.delta_t = Distance(t1, t2)
            /\ cm.freq = IF t1 = t2 THEN Inf ELSE <<1, Distance(t1, t2)>>

\* time marker 2 has been placed to the left of time marker 1
C13_Witness ==
    /\ BothTimePlaced
    /\ cursors["time2"].value < cursors["time1"].value
    /\ get_cursor_measurements(cursors).delta_t = 1

\* both time markers stand on the same coordinate
C13_WitnessZero ==
    /\ BothTimePlaced
    /\ cursors["time2"].value = cursors["time1"].value
    /\ get_cursor_measurements(cursors).freq = Inf

\* the file has the TIME,CH1,CH2 header line
WellFormed(d) == d.header = FullHeader

\* the first n key,value pairs of the file, as a mapping
FirstPairs(n) ==
    [key \in {MetaSupply[j].f[1] : j \in 1..n} |->
        Tail(MetaSupply[CHOOSE j \in 1..n : MetaSupply[j].f[1] = key].f)]

\* the call returned a frame of rows rows that has the three columns
ReturnedRows(rows) ==
    /\ ~loaded.raised
    /\ RequiredColumns \subseteq DOMAIN loaded.data
    /\ \A c \in RequiredColumns : Len(loaded.data[c]) = rows

\* C14 (as stated): for a well-formed file whose TIME header line is preceded
\* by k key,value lines, for any k >= 0, and followed by m data rows, load_data
\* returns exactly m rows with the TIME and channel columns and a metadata
\* mapping that holds exactly those k pairs.
C14_AnyMetadataCount ==
    (loaded.called /\ WellFormed(disk)) =>
        /\ ReturnedRows(disk.m)
        /\ loaded.metadata = FirstPairs(disk.k)

\* What load_data does on those files (C14): it reads the first 13 lines as
\* metadata and looks for the TIME header from line 14 on. With k >= 13 lines
\* before the header it
\* returns the m rows and a mapping of the first 13 pairs, hence exactly the k
\* pairs only when k = 13; with 1 <= k <= 12 it raises; with k = 0 it returns
\* the m rows, the mapping holding the header line and rows instead.
C14_ThirteenMetadataLines ==
    (loaded.called /\ WellFormed(disk)) =>
        /\ disk.k >= MetadataLines =>
             /\ ReturnedRows(disk.m)
             /\ loaded.metadata = FirstPairs(MetadataLines)
        /\ disk.k \in 1..(MetadataLines - 1) => loaded.raised
        /\ disk.k = 0 =>
             /\ ReturnedRows(disk.m)
             /\ "TIME" \in DOMAIN loaded.metadata

\* a file with 13 key,value lines, the header and rows has been loaded
C14_ThirteenLinesLoaded ==
    /\ loaded.called
    /\ WellFormed(disk)
    /\ disk.k = MetadataLines
    /\ disk.m = MaxRows
    /\ ReturnedRows(MaxRows)
    /\ loaded.metadata = FirstPairs(disk.k)

\* the header line of the file holds a column of each required name
HasRequiredColumns(d) == RequiredColumns \subseteq {d.header[j] : j \in 1..Len(d.header)}

\* the file has a header line with the TIME token
HasTimeHeader(d) == \E j \in 1..Len(d.header) : d.header[j] = "TIME"

\* the call raised: nothing is returned and the handler keeps no frame
RaisedNoWaveform ==
    /\ loaded.raised
    /\ loaded.data = NoData
    /\ dh_data = NoData

\* C15: load_data raises, and returns no waveform, whenever the file has no
\* header line with the TIME token or lacks a required column; a file that has
\* the TIME column and the channel columns loads without error.
C15_RaisesIffColumnsMissing ==
    loaded.called =>
        /\ (~HasTimeHeader(disk) \/ ~HasRequiredColumns(disk)) => RaisedNoWaveform
        /\ (HasTimeHeader(disk) /\ HasRequiredColumns(disk)) => ~loaded.raised

\* the half of C15 that load_data keeps: no TIME header or a missing column
\* always raises, and nothing is stored
C15_MissingColumnsRaise ==
    (loaded.called /\ (~HasTimeHeader(disk) \/ ~HasRequiredColumns(disk)))
        => RaisedNoWaveform

\* the visible widths the pointer events come with
Widths == {r[1] : r \in AxisRanges}

\* the marker a pointer-down at (x, y) with visible ranges (xw, yw) claims
Claimed(x, y, xw, yw) ==
    LET i == FirstNear(State, PointerEvent(x, y, xw, yw, FALSE))
    IN IF i = 0 THEN NoName ELSE CursorNames[i]

\* C16: when the visible range of an axis has zero width, no pointer-down
\* starts a drag of a marker of that axis, wherever the pointer is, also
\* exactly on a marker; with both ranges of zero width on_click changes nothing
\* (it has no failing path: the comparison abs(d) < 0 is false).
C16_ZeroWidthNeverDrags ==
    \A x, y \in Coords :
        /\ on_click(State, PointerEvent(x, y, 0, 0, FALSE)) = State
        /\ \A w \in Widths :
             /\ ~IsTimeName(Claimed(x, y, 0, w))
             /\ Claimed(x, y, w, 0) \notin {"volt1", "volt2"}

\* the button was pressed on time1's line while the ranges had zero width: it
\* is held, nothing is dragged, and the same press with a wider range would
\* have claimed the marker
C16_Witness ==
    /\ button_down /\ ~dragging /\ active_cursor = NoName
    /\ cursors["time1"].line
    /\ \E y \in Coords :
          /\ Claimed(cursors["time1"].value, y, 0, 0) = NoName
          /\ \E w \in Widths : Claimed(cursors["time1"].value, y, w, w) = "time1"

\* the samples of a channel of the frame
Samples(ch) == {dh_data[ch][i] : i \in 1..Len(dh_data[ch])}

\* C17: for a waveform of n >= 2 samples get_measurements returns vmax >= vmin
\* and vpp = vmax - vmin, vmax being the largest and vmin the smallest sample
\* of the channel.
C17_ExtremesAndPeakToPeak ==
    \A ch \in DOMAIN measurements :
        Len(dh_data[ch]) >= 2 =>
            /\ measurements[ch].vmax >= measurements[ch].vmin
            /\ measurements[ch].vpp = measurements[ch].vmax - measurements[ch].vmin
            /\ measurements[ch].vmax \in Samples(ch)
            /\ measurements[ch].vmin \in Samples(ch)
            /\ \A x \in Samples(ch) :
                  measurements[ch].vmin <= x /\ x <= measurements[ch].vmax

\* CH1 has been measured on a frame whose largest sample is not its last
C17_Witness ==
    /\ "CH1" \in DOMAIN measurements
    /\ measurements["CH1"].vpp > 0
    /\ dh_data["CH1"][Len(dh_data["CH1"])] < measurements["CH1"].vmax

\* the number of places where the channel passes its mean: neighbours of which
\* exactly one lies below the mean
MeanCrossings(ch) ==
    LET v == dh_data[ch]
        n == Len(v)
        below(i) == v[i] * n < SumSeq(v)
    IN Cardinality({i \in 1..(n - 1) : below(i) # below(i + 1)})

\* C18: when the channel has fewer than 2 mean-crossings, get_measurements
\* returns period = 0, freq = 0 and duty = 0 (and it returns: no path raises).
C18_FewCrossingsZeroTiming ==
    \A ch \in DOMAIN measurements :
        MeanCrossings(ch) < 2 =>
            /\ measurements[ch] # NoMeasurement
            /\ RatIsZero(measurements[ch].period)
            /\ RatIsZero(measurements[ch].freq)
            /\ RatIsZero(measurements[ch].duty)

\* CH1 has been measured on a frame that passes its mean exactly once
C18_Witness ==
    /\ "CH1" \in DOMAIN measurements
    /\ MeanCrossings("CH1") = 1
    /\ measurements["CH1"].vpp > 0
    /\ RatIsZero(measurements["CH1"].period)

\* marker 1 of the pair is placed and marker 2 is not
AwaitingSecond(mode) ==
    /\ cursors[PairOf(mode)[1]].line
    /\ ~cursors[PairOf(mode)[2]].line

\* in state t the double-click at (x, y) has placed marker i of the pair and
\* left the other marker of the pair as it is now
PlacesMarker(t, mode, i, x, y) ==
    /\ PlacedAt(t.cursors, PairOf(mode)[i], CoordFor(mode, x, y))
    /\ t.cursor_positions[PairOf(mode)[i]] = CoordFor(mode, x, y)
    /\ t.cursors[PairOf(mode)[3 - i]] = cursors[PairOf(mode)[3 - i]]
    /\ t.cursor_positions[PairOf(mode)[3 - i]] = cursor_positions[PairOf(mode)[3 - i]]

\* C19 (as stated): whenever a pair has marker 1 placed and marker 2 not
\* placed, the next placement gesture that targets the pair sets marker 2 to
\* the pointer coordinate and leaves marker 1 where it is, whatever toggles
\* of either pair happened in between.
C19_SecondGesturePlacesMarker2 ==
    \A mode \in {"time", "voltage"} :
        (AwaitingSecond(mode) /\ GestureTarget = mode /\ ~button_down) =>
            \A x \in Coords, y \in Coords :
                PlacesMarker(Dbl(State, x, y), mode, 2, x, y)

\* C20: after a file with no remembered cursor positions is loaded, all four
\* markers are absent and every enabled pair awaits its first marker: the next
\* placement gesture for the pair places marker 1, not marker 2, whatever
\* placement was in progress on the previous file.
C20_FreshFileAwaitsFirst ==
    \A filepath \in Files :
        (filepath \notin DOMAIN file_cursor_positions /\ ~button_down) =>
            LET t == Viewer_load_data(State, filepath)
            IN /\ PairAbsent(t, TimePair) /\ PairAbsent(t, VoltPair)
               /\ \A mode \in {"time", "voltage"} :
                     PlacementTarget(t) = mode =>
                        \A x \in Coords, y \in Coords :
                            /\ PlacedAt(Dbl(t, x, y).cursors, PairOf(mode)[1],
                                        CoordFor(mode, x, y))
                            /\ ~Dbl(t, x, y).cursors[PairOf(mode)[2]].line

\* the position remembered for marker i of the pair
Remembered(mode, i) == cursor_positions[PairOf(mode)[i]]

\* C21: enabling a pair that has remembered positions restores them: with both
\* positions remembered both markers reappear where they were; with only
\* marker 1 remembered marker 1 reappears, marker 2 stays absent and the next
\* placement gesture places marker 2 and leaves marker 1.
C21_EnableRestoresRemembered ==
    \A mode \in {"time", "voltage"} :
        (~PairEnabled(mode) /\ ~button_down /\ Remembered(mode, 1) # None) =>
            LET t == FlipToggle(State, mode)
                m1 == PairOf(mode)[1]
                m2 == PairOf(mode)[2]
            IN /\ PlacedAt(t.cursors, m1, Remembered(mode, 1))
               /\ Remembered(mode, 2) # None =>
                     PlacedAt(t.cursors, m2, Remembered(mode, 2))
               /\ Remembered(mode, 2) = None =>
                     /\ ~t.cursors[m2].line
                     /\ \A x \in Coords, y \in Coords :
                           /\ PlacedAt(Dbl(t, x, y).cursors, m2, CoordFor(mode, x, y))
                           /\ Dbl(t, x, y).cursor_positions[m2] = CoordFor(mode, x, y)
                           /\ Dbl(t, x, y).cursors[m1] = t.cursors[m1]

\* the Time toggle is off with only time1 remembered, next to an enabled
\* voltage pair in the middle of its own placement; switching it on brings
\* time1 back
C21_Witness ==
    /\ ~time_cursor_var /\ ~button_down
    /\ volt_cursor_var /\ last_cursor_click = "volt1"
    /\ Remembered("time", 1) # None /\ Remembered("time", 2) = None
    /\ PlacedAt(FlipToggle(State, "time").cursors, "time1", Remembered("time", 1))

\* the Time toggle is off with both time positions remembered
C21_WitnessBoth ==
    /\ ~time_cursor_var
    /\ Remembered("time", 1) # None /\ Remembered("time", 2) # None

\* the smallest sample and the peak-to-peak value of a channel
Lowest(ch) == CHOOSE x \in Samples(ch) : \A y \in Samples(ch) : x <= y
Highest(ch) == CHOOSE x \in Samples(ch) : \A y \in Samples(ch) : y <= x
Swing(ch) == Highest(ch) - Lowest(ch)

\* voltage[i] <= v10 and voltage[i+1] >= v90, and the reverse, with
\* v10 = vmin + 0.10*vpp and v90 = vmin + 0.90*vpp (all times 10)
AtOrBelowV10(ch, i) == 10 * dh_data[ch][i] <= 10 * Lowest(ch) + Swing(ch)
AtOrAboveV90(ch, i) == 10 * dh_data[ch][i] >= 10 * Lowest(ch) + 9 * Swing(ch)
RisingPairs(ch) ==
    {i \in 1..(Len(dh_data[ch]) - 1) : AtOrBelowV10(ch, i) /\ AtOrAboveV90(ch, i + 1)}
FallingPairs(ch) ==
    {i \in 1..(Len(dh_data[ch]) - 1) : AtOrAboveV90(ch, i) /\ AtOrBelowV10(ch, i + 1)}

\* the mean of time[i+1] - time[i] over the pairs of a set, 0 for the empty set
MeanDuration(pairs) ==
    IF pairs = {} THEN Zero
    ELSE <<SumSeq([i \in 1..(Len(dh_data["TIME"]) - 1) |->
                     IF i \in pairs THEN dh_data["TIME"][i + 1] - dh_data["TIME"][i]
                     ELSE 0]),
           Cardinality(pairs)>>

CrossingList(ch) ==
    LET v == dh_data[ch]
        n == Len(v)
        below(i) == v[i] * n < SumSeq(v)
    IN SortedSeq({i \in 1..(n - 1) : below(i) # below(i + 1)})
CrossingTime(ch, k) == dh_data["TIME"][CrossingList(ch)[k]]

\* the number of entries of the stride-2 sub-list (first, third, fifth, ...)
SameEdgeCount(ch) == (Len(CrossingList(ch)) + 1) \div 2

\* the mean of the differences between consecutive entries of the stride-2
\* sub-list: they add up to the distance from its first to its last entry
MeanSameEdgeDistance(ch) ==
    <<CrossingTime(ch, 2 * SameEdgeCount(ch) - 1) - CrossingTime(ch, 1),
      SameEdgeCount(ch) - 1>>

\* C23: with at least 2 crossings, period is the mean of the time differences
\* between consecutive entries of the stride-2 sub-list of the crossings (0
\* when the sub-list has a single entry and so no difference), freq is
\* 1/period when period > 0 and 0 otherwise, and freq = 0 exactly when
\* period = 0.
C23_PeriodFromEveryOtherCrossing ==
    \A ch \in DOMAIN measurements :
        Len(CrossingList(ch)) >= 2 =>
            LET period == measurements[ch].period
                freq == measurements[ch].freq
            IN /\ SameEdgeCount(ch) >= 2 => RatEq(period, MeanSameEdgeDistance(ch))
               /\ SameEdgeCount(ch) < 2 => RatIsZero(period)
               /\ period[1] > 0 => freq = <<period[2], period[1]>>
               /\ ~(period[1] > 0) => RatIsZero(freq)
               /\ RatIsZero(freq) <=> RatIsZero(period)

\* CH1 has been measured on a frame with three crossings, the first and the
\* third more than one sample apart
C23_Witness ==
    /\ "CH1" \in DOMAIN measurements
    /\ Len(CrossingList("CH1")) >= 3
    /\ measurements["CH1"].period[1] > 0
    /\ ~RatIsZero(measurements["CH1"].freq)

\* the sum of every other interval between consecutive crossings, starting
\* with the first
RECURSIVE HighTime(_, _)
HighTime(ch, k) ==
    IF k + 1 > Len(CrossingList(ch)) THEN 0
    ELSE (CrossingTime(ch, k + 1) - CrossingTime(ch, k)) + HighTime(ch, k + 2)

\* the sum of all intervals between consecutive crossings
TotalTime(ch) == CrossingTime(ch, Len(CrossingList(ch))) - CrossingTime(ch, 1)

\* C24: with at least 2 crossings, duty is 100 * high_time / total_time, with
\* total_time the sum of all intervals between consecutive crossings and
\* high_time the sum of every other interval starting with the first, and 0
\* if total_time is 0; with strictly increasing time samples duty lies in
\* [0, 100].
C24_DutyFromAlternateIntervals ==
    \A ch \in DOMAIN measurements :
        Len(CrossingList(ch)) >= 2 =>
            LET duty == measurements[ch].duty
            IN /\ TotalTime(ch) > 0 =>
                     RatEq(duty, <<100 * HighTime(ch, 1), TotalTime(ch)>>)
               /\ TotalTime(ch) = 0 => RatIsZero(duty)
               /\ duty[2] > 0
               /\ 0 <= duty[1] /\ duty[1] <= 100 * duty[2]

\* CH1 has been measured on a frame with three crossings whose two intervals
\* are of both kinds: the duty is neither 0 nor 100
C24_Witness ==
    /\ "CH1" \in DOMAIN measurements
    /\ Len(CrossingList("CH1")) >= 3
    /\ measurements["CH1"].duty[1] > 0
    /\ measurements["CH1"].duty[1] < 100 * measurements["CH1"].duty[2]

\* C25: in every reachable state and for each pair, marker 2 is present only
\* if marker 1 is present.
C25_Marker2OnlyWithMarker1 ==
    /\ cursors["time2"].line => cursors["time1"].line
    /\ cursors["volt2"].line => cursors["volt1"].line

\* the redraws of the file on display from state s: a channel checkbutton
\* and a change of theme
Redraws(s) ==
    {change_theme(s)}
    \cup {update_plot([s EXCEPT !.channel_vars[ch] = ~@], NoData, <<>>, NoName) :
             ch \in DOMAIN s.channel_vars}

\* the pair of marker n is enabled in state s
PairOn(s, n) == IF IsTimeName(n) THEN s.time_cursor_var ELSE s.volt_cursor_var

\* C26: after a marker is dragged to position p and released, a redraw of the
\* same file with the pair still enabled shows the marker at p.
C26_DragSurvivesRedraw ==
    (dragging /\ button_down /\ current_file # NoName
        /\ cursors[active_cursor].line /\ PairOn(State, active_cursor)) =>
        \A x \in Coords, y \in Coords :
            LET n == active_cursor
                p == IF IsTimeName(n) THEN x ELSE y
                released == PlotManager_on_release(MoveTo(State, x, y))
            IN /\ PlacedAt(released.cursors, n, p)
               /\ \A r \in Redraws(released) : PlacedAt(r.cursors, n, p)

\* C27: whenever a drag is in progress (dragging is true and active_cursor is
\* set) the dragged marker has a line and a position, also when a toggle-off,
\* a redraw or a file load is handled between pointer-down and pointer-up;
\* and dragging is true exactly when active_cursor is set.
C27_DraggedMarkerExists ==
    /\ dragging <=> active_cursor # NoName
    /\ (dragging /\ active_cursor # NoName) =>
          /\ cursors[active_cursor].line
          /\ cursors[active_cursor].value # None

\* C28: a marker's active flag is true exactly while that marker is the one
\* being dragged; at most one of the four markers has it, and none has it
\* when no drag is in progress.
C28_ActiveFlagIsTheDrag ==
    /\ \A n \in NameSet : cursors[n].active <=> (dragging /\ active_cursor = n)
    /\ Cardinality({n \in NameSet : cursors[n].active}) <= 1
    /\ ~dragging => \A n \in NameSet : ~cursors[n].active

\* C29: selecting again the file on display (update_plot called with
\* filepath equal to current_file) leaves the four remembered cursor positions
\* and the markers of the enabled pairs unchanged.
C29_ReselectKeepsCursors ==
    (current_file \in Files /\ ~button_down) =>
        LET t == Viewer_load_data(State, current_file)
        IN /\ t.cursor_positions = cursor_positions
           /\ time_cursor_var =>
                 \A i \in 1..2 : t.cursors[TimePair[i]] = cursors[TimePair[i]]
           /\ volt_cursor_var =>
                 \A i \in 1..2 : t.cursors[VoltPair[i]] = cursors[VoltPair[i]]

\* marker n belongs to the pair `mode`
InPair(n, mode) == n \in {PairOf(mode)[1], PairOf(mode)[2]}

\* C30: toggling, placing or dragging markers of one pair never changes the
\* positions, live or remembered, of the other pair's markers: a toggle of the
\* pair (off or on), a placement gesture for it, and a press, a pointer-move
\* and a release that drag one of its markers leave both markers of the other
\* pair and their remembered positions as they are.
C30_OtherPairUntouched ==
    \A mode \in {"time", "voltage"} :
        /\ KeepsPair(FlipToggle(State, mode), OtherMode(mode))
        /\ (GestureTarget = mode /\ ~button_down) =>
              \A x \in Coords, y \in Coords :
                  KeepsPair(Dbl(State, x, y), OtherMode(mode))
        /\ ~button_down =>
              \A x \in Coords, y \in Coords, <<xw, yw>> \in AxisRanges :
                  LET t == Press(State, x, y, xw, yw)
                  IN InPair(t.active_cursor, mode) => KeepsPair(t, OtherMode(mode))
        /\ (dragging /\ InPair(active_cursor, mode)) =>
              /\ \A x \in Coords, y \in Coords :
                    KeepsPair(MoveTo(State, x, y), OtherMode(mode))
              /\ KeepsPair(PlotManager_on_release(State), OtherMode(mode))

\* a voltage marker is being dragged while a time marker stands on the plot
C30_Witness ==
    /\ button_down /\ dragging /\ InPair(active_cursor, "voltage")
    /\ time_cursor_var /\ cursors["time1"].line
    /\ cursor_positions["time1"] # None

=============================================================================
